---- MODULE Spec2Model ----
(***************************************************************************)
(* FarcasterInteractionManager (packages/client-farcaster/src/             *)
(* interactions.ts): the poll loop of start()/stop(), the candidate        *)
(* aggregation and the per-candidate gate of handleInteractions(), and     *)
(* the record / generate / dispatch / persist / propagate sequence of      *)
(* handleCast().  Every `await` of the source is one step of a manager, so *)
(* that stop(), a process restart and a second process interleave exactly  *)
(* where the JavaScript run-time lets them.                                *)
(*                                                                         *)
(* A cast is represented by its hash; its immutable attributes are the     *)
(* table Casts.  A text is represented by its length, the only thing the   *)
(* source reads of it (emptiness at line 245, length at line 122).         *)
(* start() is called once per manager instance and per process lifetime.   *)
(* processActions is the external action pipeline; it is modelled as a     *)
(* call that returns or throws and does not call the callback again.       *)
(***************************************************************************)
EXTENDS Integers, Sequences, FiniteSets, TLC

\* ------------------------------------------------------------- bounds
\* The longest page getMentions returns (the source asks for pageSize 10).
MaxMentions == 2
\* The most casts one sendCast splits a reply into.
MaxChunks == 2
\* History counters saturate here.
CountCap == 3

\* ------------------------------------------------------ configuration
\* FARCASTER_FID of the agent (farcasterConfig, line 62).
AgentFid == 1
\* The recency window of the tracked-author filter, in ms (line 111).
DayMs == 24 * 60 * 60 * 1000
\* The text of a tracked author's cast qualifies when longer than this (line 122).
MinTextLength == 10

\* --------------------------------------------------------- the feed
\* The two instants Date.now() takes; one minute apart.
T0 == DayMs + 1000
Times == {T0, T0 + 60 * 1000}

\* The casts of the network: author fid, text length, timestamp (ms).
\*   m1  a mention by user 2                ms  a mention written by the agent
\*   me  a mention with an empty text       a1  alice, 23h59m old at T0
\*   a2  alice, fresh, 11 characters        a3  alice, 24h+1s old at T0
\*   a4  alice, fresh, 10 characters        a5  alice, exactly 24h old at T0
\*   b1  bob, fresh
Casts ==
    [ m1 |-> [authorFid |-> 2, textLength |-> 20, timestamp |-> T0 - 5000],
      ms |-> [authorFid |-> AgentFid, textLength |-> 20, timestamp |-> T0 - 5000],
      me |-> [authorFid |-> 2, textLength |-> 0, timestamp |-> T0 - 5000],
      a1 |-> [authorFid |-> 3, textLength |-> 20, timestamp |-> T0 - (DayMs - 60 * 1000)],
      a2 |-> [authorFid |-> 3, textLength |-> 11, timestamp |-> T0 - 5000],
      a3 |-> [authorFid |-> 3, textLength |-> 20, timestamp |-> T0 - (DayMs + 1000)],
      a4 |-> [authorFid |-> 3, textLength |-> 10, timestamp |-> T0 - 5000],
      a5 |-> [authorFid |-> 3, textLength |-> 20, timestamp |-> T0 - DayMs],
      b1 |-> [authorFid |-> 4, textLength |-> 20, timestamp |-> T0 - 5000] ]

Hashes == DOMAIN Casts

\* The accounts lookupUserByUsername knows: username -> fid ("ghost" is unknown).
Users == [alice |-> 3, bob |-> 4]

\* client.getProfile(fid): the profile of that fid.
getProfile(fid) == [fid |-> fid]

\* The Cast object the client builds for a feed item (lines 131-141): the
\* profile is the one looked up for the author's fid.
CastObj(h) ==
    [hash |-> h, authorFid |-> Casts[h].authorFid,
     textLength |-> Casts[h].textLength,
     profile |-> getProfile(Casts[h].authorFid),
     timestamp |-> Casts[h].timestamp]

\* runtime.agentId: the processes run the same agent.
AgentId == "agent"

\* castUuid({agentId, hash}): the deterministic memory id of a cast.
castUuid(agentId, hash) == <<agentId, hash>>

\* createCastMemory(...): the inbound record of a cast; its id is the cast's
\* memory id.
createCastMemory(agentId, hash) == [id |-> castUuid(agentId, hash)]

\* The runs of the model: what the feed holds and how the manager is
\* configured.  mentionPool: the casts getMentions may return; userCasts:
\* what fetchCastsForUser may return for each tracked author, in feed order.
Scenarios ==
    { [mentionPool |-> {"m1", "ms", "me"}, TARGET_USERS |-> <<>>,
       userCasts |-> [alice |-> <<>>, bob |-> <<>>]],
      [mentionPool |-> {}, TARGET_USERS |-> <<"alice">>,
       userCasts |-> [alice |-> <<"a1", "a2", "a3">>, bob |-> <<>>]],
      [mentionPool |-> {}, TARGET_USERS |-> <<"alice">>,
       userCasts |-> [alice |-> <<"a2", "a4", "a5">>, bob |-> <<>>]],
      [mentionPool |-> {"a2"}, TARGET_USERS |-> <<"ghost", "alice", "bob">>,
       userCasts |-> [alice |-> <<"a2">>, bob |-> <<"b1">>]] }

\* farcasterConfig: FARCASTER_FID (0: not configured) and FARCASTER_DRY_RUN.
Configs ==
    { [FARCASTER_FID |-> AgentFid, FARCASTER_DRY_RUN |-> FALSE],
      [FARCASTER_FID |-> AgentFid, FARCASTER_DRY_RUN |-> TRUE],
      [FARCASTER_FID |-> 0, FARCASTER_DRY_RUN |-> FALSE] }

\* The scenario of two orchestrator processes on one store.
SharedStoreScenario ==
    [mentionPool |-> {"m1"}, TARGET_USERS |-> <<>>,
     userCasts |-> [alice |-> <<>>, bob |-> <<>>]]

Procs == {1, 2}

\* ------------------------------------------------------- sequences
NoDup(s) == \A a, b \in 1..Len(s) : a # b => s[a] # s[b]

\* The duplicate-free sequences over S of length at most n.
SeqsUpTo(S, n) == UNION {{s \in [1..k -> S] : NoDup(s)} : k \in 0..n}

RECURSIVE SubSeqs(_)
\* The subsequences of s, order kept.
SubSeqs(s) ==
    IF s = <<>> THEN {<<>>}
    ELSE LET rest == SubSeqs(Tail(s))
         IN  rest \cup {<<Head(s)>> \o t : t \in rest}

Inc(n) == IF n < CountCap THEN n + 1 ELSE CountCap

\* --------------------------------------------------------- the state
VARIABLES
    scenario,            \* the feed and TARGET_USERS of this run
    config,              \* farcasterConfig
    procs,               \* the orchestrator processes of this run
    now,                 \* Date.now()
    started,             \* start() was called (per process)
    stopCalled,          \* stop() was called since start()
    timeout,             \* this.timeout: "undefined", "pending" or "dead" handle
    timers,              \* timers of handleInteractionsLoop pending in the run-time
    inFlight,            \* handleInteractions cycles begun and not yet settled
    lastProcessedCasts,  \* this.lastProcessedCasts
    pc,                  \* the await (or place) each manager is at
    frame,               \* the locals of the running cycle
    memories,            \* ids of the records of the memory store
    inboundCreates,      \* hash -> createMemory calls for its inbound record that returned
    outbound,            \* the outbound records of the store
    sent,                \* hash -> sendCast calls for it that succeeded
    sendFailed,          \* the hashes whose sendCast threw in this process lifetime
    delivered            \* the hashes whose sendCast returned in this process lifetime

mgrVars == <<started, stopCalled, timeout, timers, inFlight>>
storeVars == <<memories, inboundCreates, outbound>>
envVars == <<scenario, config, procs, now>>
histVars == <<sent, sendFailed, delivered>>
vars == <<scenario, config, procs, now, started, stopCalled, timeout, timers,
          inFlight, lastProcessedCasts, pc, frame, memories, inboundCreates,
          outbound, sent, sendFailed, delivered>>

\* The locals of handleInteractions and handleCast before the first await.
EmptyFrame ==
    [mentions |-> <<>>, u |-> 0, validCasts |-> <<>>, processedCasts |-> <<>>,
     k |-> 0, filterTime |-> 0, authors |-> <<>>,
     castsByUser |-> <<>>, castsCandidates |-> <<>>, i |-> 0,
     calls |-> {}, result |-> "none", verdict |-> "none",
     action |-> "none", results |-> <<>>, j |-> 0,
     dispatch |-> "none", responseMessages |-> <<>>, handleCasts |-> 0,
     threw |-> FALSE]

InitManagers ==
    /\ started = [p \in Procs |-> FALSE]
    /\ stopCalled = [p \in Procs |-> FALSE]
    /\ timeout = [p \in Procs |-> "undefined"]
    /\ timers = [p \in Procs |-> 0]
    /\ inFlight = [p \in Procs |-> 0]
    /\ lastProcessedCasts = [p \in Procs |-> {}]
    /\ pc = [p \in Procs |-> "init"]
    /\ frame = [p \in Procs |-> EmptyFrame]
    /\ memories = {}
    /\ inboundCreates = [h \in Hashes |-> 0]
    /\ outbound = {}
    /\ sent = [h \in Hashes |-> 0]
    /\ sendFailed = [p \in Procs |-> {}]
    /\ delivered = [p \in Procs |-> {}]

\* One manager, any scenario, any configuration.
Init ==
    /\ scenario \in Scenarios
    /\ config \in Configs
    /\ procs = {1}
    /\ now = T0
    /\ InitManagers

\* Two processes, each with its own manager, on one memory store.
Init2 ==
    /\ scenario = SharedStoreScenario
    /\ config = [FARCASTER_FID |-> AgentFid, FARCASTER_DRY_RUN |-> FALSE]
    /\ procs = {1, 2}
    /\ now = T0
    /\ InitManagers

\* ------------------------------------------------- start() and stop()
\* handleInteractionsLoop up to its first await (lines 37-39, 59-69):
\* handleInteractions is entered and, with no FID configured, returns at once.
BeginCycle(p) ==
    /\ inFlight' = [inFlight EXCEPT ![p] = Inc(@)]
    /\ frame' = [frame EXCEPT ![p] = EmptyFrame]
    /\ pc' = [pc EXCEPT ![p] =
                IF config.FARCASTER_FID = 0 THEN "settle" ELSE "getMentions"]

\* start(): the loop's first turn runs in the caller's turn (line 52).
Start(p) ==
    /\ p \in procs
    /\ pc[p] = "init"
    /\ ~started[p]
    /\ started' = [started EXCEPT ![p] = TRUE]
    /\ BeginCycle(p)
    /\ UNCHANGED <<stopCalled, timeout, timers, lastProcessedCasts>>
    /\ UNCHANGED <<envVars, storeVars, histVars>>

\* A timer that re-arms itself when it fires (setInterval).
TimerFireInterval(p) ==
    /\ p \in procs
    /\ timers[p] > 0
    /\ BeginCycle(p)
    /\ UNCHANGED <<started, stopCalled, timeout, timers, lastProcessedCasts>>
    /\ UNCHANGED <<envVars, storeVars, histVars>>

\* The pending timer fires: the next turn of handleInteractionsLoop.
TimerFire(p) ==
    /\ p \in procs
    /\ timers[p] > 0
    /\ timers' = [timers EXCEPT ![p] = @ - 1]
    /\ timeout' = [timeout EXCEPT ![p] = "dead"]
    /\ BeginCycle(p)
    /\ UNCHANGED <<started, stopCalled, lastProcessedCasts>>
    /\ UNCHANGED <<envVars, storeVars, histVars>>

\* setTimeout inside the try block: a cycle that threw arms nothing.
ArmsOnSuccessOnly(threw) == ~threw

\* Whether the settled turn arms the timer of the next one (lines 44-49:
\* after the try/catch, whether handleInteractions returned or threw).
ArmsNextTimer(threw) == TRUE

\* The awaited handleInteractions settles; the catch logs a rejection and
\* setTimeout arms the next turn (lines 40-49).
Settle(p) ==
    /\ p \in procs
    /\ pc[p] = "settle"
    /\ inFlight' = [inFlight EXCEPT ![p] = @ - 1]
    /\ IF ArmsNextTimer(frame[p].threw)
       THEN /\ timers' = [timers EXCEPT ![p] = Inc(@)]
            /\ timeout' = [timeout EXCEPT ![p] = "pending"]
       ELSE UNCHANGED <<timers, timeout>>
    /\ pc' = [pc EXCEPT ![p] = "idle"]
    /\ frame' = [frame EXCEPT ![p] = [EmptyFrame EXCEPT !.threw = frame[p].threw]]
    /\ UNCHANGED <<started, stopCalled, lastProcessedCasts>>
    /\ UNCHANGED <<envVars, storeVars, histVars>>

\* stop() (lines 55-57): clearTimeout on the handle this.timeout holds, which
\* is a pending timer only between two cycles.
Stop(p) ==
    /\ p \in procs
    /\ started[p]
    /\ ~stopCalled[p]
    /\ stopCalled' = [stopCalled EXCEPT ![p] = TRUE]
    /\ IF timeout[p] = "pending"
       THEN /\ timers' = [timers EXCEPT ![p] = @ - 1]
            /\ timeout' = [timeout EXCEPT ![p] = "dead"]
       ELSE UNCHANGED <<timers, timeout>>
    /\ UNCHANGED <<started, inFlight, lastProcessedCasts, pc, frame>>
    /\ UNCHANGED <<envVars, storeVars, histVars>>

\* The process ends and a new one constructs its manager (lines 27-34): the
\* fields start afresh, the memory store is kept.
Restart(p) ==
    /\ p \in procs
    /\ started[p]
    /\ started' = [started EXCEPT ![p] = FALSE]
    /\ stopCalled' = [stopCalled EXCEPT ![p] = FALSE]
    /\ timeout' = [timeout EXCEPT ![p] = "undefined"]
    /\ timers' = [timers EXCEPT ![p] = 0]
    /\ inFlight' = [inFlight EXCEPT ![p] = 0]
    /\ lastProcessedCasts' = [lastProcessedCasts EXCEPT ![p] = {}]
    /\ pc' = [pc EXCEPT ![p] = "init"]
    /\ frame' = [frame EXCEPT ![p] = EmptyFrame]
    /\ sendFailed' = [sendFailed EXCEPT ![p] = {}]
    /\ delivered' = [delivered EXCEPT ![p] = {}]
    /\ UNCHANGED <<envVars, storeVars, sent>>

\* Time passes.  Date.now() is read at line 110 only, when fetchCastsForUser
\* has resolved, so the clock is advanced there and nowhere else.
Tick ==
    /\ \E p \in procs : pc[p] = "fetchCastsForUser"
    /\ \E t \in Times : t > now /\ now' = t
    /\ UNCHANGED <<scenario, config, procs>>
    /\ UNCHANGED <<mgrVars, lastProcessedCasts, pc, frame, storeVars, histVars>>

\* What every step of a running cycle leaves alone.
CycleFrame == UNCHANGED <<envVars, mgrVars>>

At(p, place) == p \in procs /\ pc[p] = place

Goto(p, place, f) ==
    /\ pc' = [pc EXCEPT ![p] = place]
    /\ frame' = [frame EXCEPT ![p] = f]


\* ------------------------------------- handleInteractions: aggregation
TARGET_USERS == scenario.TARGET_USERS

\* The error of an await outside every inner try: handleInteractions
\* rejects and the loop's catch takes it (line 40).
Rejected == [EmptyFrame EXCEPT !.threw = TRUE]

\* getMentions resolves (lines 69-81): the mentions are the candidates so
\* far; the tracked authors follow when there are any.
GetMentions(p) ==
    /\ At(p, "getMentions")
    /\ \E page \in SeqsUpTo(scenario.mentionPool, MaxMentions) :
         LET f == [frame[p] EXCEPT !.mentions = page, !.castsCandidates = page]
         IN  IF Len(TARGET_USERS) > 0
             THEN Goto(p, "lookupUserByUsername", [f EXCEPT !.u = 1])
             ELSE Goto(p, "getAgentProfile", f)
    /\ UNCHANGED lastProcessedCasts
    /\ CycleFrame /\ UNCHANGED <<storeVars, histVars>>

\* What the log lines of an author's turn tell (lines 94, 113-117, 146-153,
\* 155): how the turn ended, and which casts the filter had let through at
\* what time.  outcome: "unknown" (no such user), "failed" (an await threw),
\* "none" (no valid cast), "ok" (castsByUser has the author's casts).
Noted(f, outcome) ==
    [f EXCEPT !.authors =
        Append(@, [username |-> TARGET_USERS[f.u], outcome |-> outcome,
                   validCasts |-> f.validCasts, at |-> f.filterTime])]

\* The end of one turn of `for (const username of TARGET_USERS)`
\* (lines 86-158): the next author, or the selection after the last.
AfterUser(p, f) ==
    LET g == [f EXCEPT !.validCasts = <<>>, !.processedCasts = <<>>, !.k = 0,
                       !.filterTime = 0]
    IN  IF f.u < Len(TARGET_USERS)
        THEN Goto(p, "lookupUserByUsername", [g EXCEPT !.u = f.u + 1])
        ELSE Goto(p, "select", [g EXCEPT !.u = 0])

\* lookupUserByUsername resolves (lines 88-96); an unknown user is skipped.
LookupUser(p) ==
    /\ At(p, "lookupUserByUsername")
    /\ IF TARGET_USERS[frame[p].u] \in DOMAIN Users
       THEN Goto(p, "fetchCastsForUser", frame[p])
       ELSE AfterUser(p, Noted(frame[p], "unknown"))
    /\ UNCHANGED lastProcessedCasts
    /\ CycleFrame /\ UNCHANGED <<storeVars, histVars>>

\* The filter with the window's end inside the window.
IsValidCastInclusive(p, h) ==
    /\ h \notin lastProcessedCasts[p]
    /\ now - Casts[h].timestamp <= DayMs
    /\ Casts[h].textLength > MinTextLength

\* The filter of lines 106-124: unprocessed, recent, long enough.
IsValidCast(p, h) ==
    LET isUnprocessed == h \notin lastProcessedCasts[p]
        isRecent == now - Casts[h].timestamp < DayMs
    IN  isUnprocessed /\ isRecent /\ Casts[h].textLength > MinTextLength

\* fetchCastsForUser resolves (lines 98-126, 144-153).
FetchCasts(p) ==
    /\ At(p, "fetchCastsForUser")
    /\ \E userCasts \in SubSeqs(scenario.userCasts[TARGET_USERS[frame[p].u]]) :
         LET Valid(h) == IsValidCast(p, h)
             validCasts == SelectSeq(userCasts, Valid)
             f == [frame[p] EXCEPT !.validCasts = validCasts,
                                   !.filterTime = now]
         IN  IF validCasts = <<>>
             THEN AfterUser(p, Noted(f, "none"))
             ELSE Goto(p, "getProfile",
                       [f EXCEPT !.processedCasts = <<>>, !.k = 1])
    /\ UNCHANGED lastProcessedCasts
    /\ CycleFrame /\ UNCHANGED <<storeVars, histVars>>

\* Map.prototype.set on the insertion-ordered castsByUser.
MapSet(m, key, val) ==
    IF \E x \in 1..Len(m) : m[x][1] = key
    THEN [x \in 1..Len(m) |-> IF m[x][1] = key THEN <<key, val>> ELSE m[x]]
    ELSE Append(m, <<key, val>>)

\* getProfile of a valid cast's author resolves (lines 128-146).
GetCastProfile(p) ==
    /\ At(p, "getProfile")
    /\ LET f == frame[p]
           processedCasts == Append(f.processedCasts, f.validCasts[f.k])
       IN  IF f.k < Len(f.validCasts)
           THEN Goto(p, "getProfile",
                     [f EXCEPT !.processedCasts = processedCasts, !.k = f.k + 1])
           ELSE AfterUser(p, [Noted(f, "ok") EXCEPT !.castsByUser =
                                  MapSet(f.castsByUser, TARGET_USERS[f.u],
                                         processedCasts)])
    /\ UNCHANGED lastProcessedCasts
    /\ CycleFrame /\ UNCHANGED <<storeVars, histVars>>

\* The awaits of the author's try block (lines 88, 98, 129).
UserAwaits == {"lookupUserByUsername", "fetchCastsForUser", "getProfile"}

\* The try block around the whole loop: an author's error ends the cycle.
ThrowAbortsCycle(p) ==
    /\ p \in procs
    /\ pc[p] \in UserAwaits
    /\ Goto(p, "settle", [EmptyFrame EXCEPT !.threw = TRUE])
    /\ UNCHANGED lastProcessedCasts
    /\ CycleFrame /\ UNCHANGED <<storeVars, histVars>>

\* An await of the author's try block throws (lines 154-157): the author
\* is given up, the loop continues.
ThrowInUserLoop(p) ==
    /\ p \in procs
    /\ pc[p] \in UserAwaits
    /\ AfterUser(p, Noted(frame[p], "failed"))
    /\ UNCHANGED lastProcessedCasts
    /\ CycleFrame /\ UNCHANGED <<storeVars, histVars>>

RECURSIVE SelectAll(_)
\* Every cast of every author selected.
SelectAll(m) ==
    IF m = <<>> THEN {<<>>}
    ELSE {Head(m)[2] \o rest : rest \in SelectAll(Tail(m))}

RECURSIVE Selections(_)
\* The outcomes of lines 161-168: of each entry of castsByUser one cast,
\* casts[Math.floor(Math.random() * casts.length)].
Selections(m) ==
    IF m = <<>> THEN {<<>>}
    ELSE LET casts == Head(m)[2]
         IN  IF Len(casts) > 0
             THEN {<<casts[r]>> \o rest :
                      r \in 1..Len(casts), rest \in Selections(Tail(m))}
             ELSE Selections(Tail(m))

\* Lines 160-171: the candidates are the mentions, then the selections.
SelectCasts(p) ==
    /\ At(p, "select")
    /\ \E selectedCasts \in Selections(frame[p].castsByUser) :
         Goto(p, "getAgentProfile",
              [frame[p] EXCEPT !.castsCandidates = frame[p].mentions \o selectedCasts])
    /\ UNCHANGED lastProcessedCasts
    /\ CycleFrame /\ UNCHANGED <<storeVars, histVars>>

\* ------------------------------------ handleInteractions: the candidates
\* The head of `for (const cast of castsCandidates)` (line 178); after the
\* last candidate handleInteractions returns (lines 225-227).
LoopPc(f) == IF f.i > Len(f.castsCandidates) THEN "settle" ELSE "getMemoryById"

\* getProfile(agentFid) resolves (line 176).
GetAgentProfile(p) ==
    /\ At(p, "getAgentProfile")
    /\ LET f == [frame[p] EXCEPT !.i = 1, !.authors = <<>>]
       IN  Goto(p, LoopPc(f), f)
    /\ UNCHANGED lastProcessedCasts
    /\ CycleFrame /\ UNCHANGED <<storeVars, histVars>>

\* `cast` of the loop at line 178.
Cur(p) == frame[p].castsCandidates[frame[p].i]

\* A lookup under an id other than the one the record is stored under.
LookupMisses(h) == FALSE

\* messageManager.getMemoryById(castUuid({agentId, hash: cast.hash})): the
\* lookup of lines 184-190 and of lines 294-300.
HasMemory(h) == castUuid(AgentId, h) \in memories

\* The candidate ends: `continue` at line 193.
Skip(p, f) == Goto(p, "next", [f EXCEPT !.result = "gateSkip"])

\* The candidate ends: handleCast returns to the await of line 217.
Finish(p, f, result) ==
    Goto(p, "next", [f EXCEPT !.result = result, !.handleCasts = @ - 1])

\* The gate without its `continue`: every candidate is handled.
GateOpen(p) ==
    /\ At(p, "getMemoryById")
    /\ Goto(p, "ensureConnection", [frame[p] EXCEPT !.calls = {"getMemoryById"}])
    /\ UNCHANGED lastProcessedCasts
    /\ CycleFrame /\ UNCHANGED <<storeVars, histVars>>

\* The gate (lines 184-194): a candidate with a record is skipped.
Gate(p) ==
    /\ At(p, "getMemoryById")
    /\ LET f == [frame[p] EXCEPT !.calls = {"getMemoryById"}]
       IN  IF HasMemory(Cur(p))
           THEN Skip(p, f)
           ELSE Goto(p, "ensureConnection", f)
    /\ UNCHANGED lastProcessedCasts
    /\ CycleFrame /\ UNCHANGED <<storeVars, histVars>>

Called(f, name) == [f EXCEPT !.calls = @ \cup {name}]

\* ensureConnection resolves (lines 196-202).
EnsureConnection(p) ==
    /\ At(p, "ensureConnection")
    /\ Goto(p, "buildConversationThread", Called(frame[p], "ensureConnection"))
    /\ UNCHANGED lastProcessedCasts
    /\ CycleFrame /\ UNCHANGED <<storeVars, histVars>>

\* buildConversationThread({client, runtime, cast}): the store after the
\* thread of the cast is rebuilt; the ancestors are read from the feed and the
\* store is left as it is.
buildConversationThread(store, h) == store

\* The self check comparing fields that never agree.
NeverSelf(h) == FALSE

\* Line 240: the cast is the agent's own.
IsSelf(h) == CastObj(h).profile.fid = getProfile(config.FARCASTER_FID).fid

\* The text check passing every cast.
NeverEmpty(h) == FALSE

\* Line 245: the cast has no text.
NoText(h) == CastObj(h).textLength = 0

\* buildConversationThread resolves and handleCast runs to its first await
\* (lines 204-254).
BuildThread(p) ==
    /\ At(p, "buildConversationThread")
    /\ LET f == [Called(frame[p], "buildConversationThread")
                   EXCEPT !.handleCasts = @ + 1]
       IN  IF IsSelf(Cur(p)) THEN Finish(p, f, "self")
           ELSE IF NoText(Cur(p)) THEN Finish(p, f, "empty")
           ELSE Goto(p, "getTimeline", f)
    /\ memories' = buildConversationThread(memories, Cur(p))
    /\ UNCHANGED <<lastProcessedCasts, inboundCreates, outbound>>
    /\ CycleFrame /\ UNCHANGED histVars

\* getTimeline resolves (lines 254-276).
GetTimeline(p) ==
    /\ At(p, "getTimeline")
    /\ Goto(p, "composeState", Called(frame[p], "getTimeline"))
    /\ UNCHANGED lastProcessedCasts
    /\ CycleFrame /\ UNCHANGED <<storeVars, histVars>>

\* composeState resolves (lines 278-297).
ComposeState(p) ==
    /\ At(p, "composeState")
    /\ Goto(p, "getCastMemory", Called(frame[p], "composeState"))
    /\ UNCHANGED lastProcessedCasts
    /\ CycleFrame /\ UNCHANGED <<storeVars, histVars>>

\* The second lookup without the write of the record it misses.
CheckCastMemoryOnly(p) ==
    /\ At(p, "getCastMemory")
    /\ Goto(p, "generateShouldRespond", frame[p])
    /\ UNCHANGED lastProcessedCasts
    /\ CycleFrame /\ UNCHANGED <<storeVars, histVars>>

\* The second lookup resolves (lines 299-302).
CheckCastMemory(p) ==
    /\ At(p, "getCastMemory")
    /\ IF ~HasMemory(Cur(p))
       THEN Goto(p, "createMemory", frame[p])
       ELSE Goto(p, "generateShouldRespond", frame[p])
    /\ UNCHANGED lastProcessedCasts
    /\ CycleFrame /\ UNCHANGED <<storeVars, histVars>>

\* createMemory of the inbound record resolves (lines 303-311).
CreateInbound(p) ==
    /\ At(p, "createMemory")
    /\ memories' = memories \cup {createCastMemory(AgentId, Cur(p)).id}
    /\ inboundCreates' = [inboundCreates EXCEPT ![Cur(p)] = Inc(@)]
    /\ Goto(p, "generateShouldRespond", Called(frame[p], "createMemory"))
    /\ UNCHANGED <<lastProcessedCasts, outbound>>
    /\ CycleFrame /\ UNCHANGED histVars

\* The branch of lines 319-327 in force: IGNORE and STOP end the candidate.
ShouldRespondEnforced(p) ==
    /\ At(p, "generateShouldRespond")
    /\ \E shouldRespondResponse \in {"RESPOND", "IGNORE", "STOP"} :
         LET f == [Called(frame[p], "generateShouldRespond")
                     EXCEPT !.verdict = shouldRespondResponse]
         IN  IF shouldRespondResponse \in {"IGNORE", "STOP"}
             THEN Finish(p, f, "policySkip")
             ELSE Goto(p, "generateMessageResponse", f)
    /\ UNCHANGED lastProcessedCasts
    /\ CycleFrame /\ UNCHANGED <<storeVars, histVars>>

\* generateShouldRespond resolves (lines 313-336); the verdict is not read.
ShouldRespond(p) ==
    /\ At(p, "generateShouldRespond")
    /\ \E shouldRespondResponse \in {"RESPOND", "IGNORE", "STOP"} :
         Goto(p, "generateMessageResponse",
              [Called(frame[p], "generateShouldRespond")
                 EXCEPT !.verdict = shouldRespondResponse])
    /\ UNCHANGED lastProcessedCasts
    /\ CycleFrame /\ UNCHANGED <<storeVars, histVars>>

\* The dry-run flag not read.
DryRunIgnored == FALSE

\* Line 348: FARCASTER_DRY_RUN.
DryRun == config.FARCASTER_DRY_RUN

\* generateMessageResponse resolves (lines 338-355, 392): an empty reply
\* and a dry run end the candidate; otherwise the callback calls sendCast.
Generate(p) ==
    /\ At(p, "generateMessageResponse")
    /\ \E hasText \in BOOLEAN :
         LET f == [Called(frame[p], "generateMessageResponse")
                     EXCEPT !.action = "ACT"]
         IN  IF ~hasText THEN Finish(p, f, "emptyReply")
             ELSE IF DryRun THEN Finish(p, f, "dryRun")
             ELSE Goto(p, "sendCast", f)
    /\ UNCHANGED lastProcessedCasts
    /\ CycleFrame /\ UNCHANGED <<storeVars, histVars>>

\* ------------------------------------------- handleCast: the callback
\* What sendCast returns for a reply of n casts: the memory of each, in
\* reply to the inbound record, the response action lost (line 379).
sendCast(h, n) ==
    [c \in 1..n |-> [inReplyTo |-> castUuid(AgentId, h), hash |-> h,
                     chunk |-> c, action |-> "undefined"]]

\* sendCast resolves and the hash is not marked processed.
SendCastOkUnmarked(p) ==
    /\ At(p, "sendCast")
    /\ \E n \in 1..MaxChunks :
         LET results == sendCast(Cur(p), n)
         IN  Goto(p, "createOutbound",
                  [Called(frame[p], "sendCast")
                     EXCEPT !.dispatch = "sent", !.j = 1,
                            !.results = [results EXCEPT ![1].action = frame[p].action]])
    /\ sent' = [sent EXCEPT ![Cur(p)] = Inc(@)]
    /\ delivered' = [delivered EXCEPT ![p] = @ \cup {Cur(p)}]
    /\ UNCHANGED lastProcessedCasts
    /\ CycleFrame /\ UNCHANGED <<storeVars, sendFailed>>

\* sendCast resolves (lines 363-380): the hash is marked processed and the
\* first result gets the action of the content.
SendCastOk(p) ==
    /\ At(p, "sendCast")
    /\ \E n \in 1..MaxChunks :
         LET results == sendCast(Cur(p), n)
         IN  Goto(p, "createOutbound",
                  [Called(frame[p], "sendCast")
                     EXCEPT !.dispatch = "sent", !.j = 1,
                            !.results = [results EXCEPT ![1].action = frame[p].action]])
    /\ lastProcessedCasts' = [lastProcessedCasts EXCEPT ![p] = @ \cup {Cur(p)}]
    /\ sent' = [sent EXCEPT ![Cur(p)] = Inc(@)]
    /\ delivered' = [delivered EXCEPT ![p] = @ \cup {Cur(p)}]
    /\ CycleFrame /\ UNCHANGED <<storeVars, sendFailed>>

\* The hash marked processed before sendCast is awaited.
SendCastFailMarked(p) ==
    /\ At(p, "sendCast")
    /\ sendFailed' = [sendFailed EXCEPT ![p] = @ \cup {Cur(p)}]
    /\ lastProcessedCasts' = [lastProcessedCasts EXCEPT ![p] = @ \cup {Cur(p)}]
    /\ Goto(p, "updateRecentMessageState",
            [Called(frame[p], "sendCast") EXCEPT !.dispatch = "failed"])
    /\ UNCHANGED <<sent, delivered>>
    /\ CycleFrame /\ UNCHANGED storeVars

\* sendCast throws (lines 386-389): the callback returns [].
SendCastFail(p) ==
    /\ At(p, "sendCast")
    /\ sendFailed' = [sendFailed EXCEPT ![p] = @ \cup {Cur(p)}]
    /\ Goto(p, "updateRecentMessageState",
            [Called(frame[p], "sendCast") EXCEPT !.dispatch = "failed"])
    /\ UNCHANGED <<lastProcessedCasts, sent, delivered>>
    /\ CycleFrame /\ UNCHANGED storeVars

\* createMemory of one result resolves (lines 382-385, 392).
PersistOutbound(p) ==
    /\ At(p, "createOutbound")
    /\ LET f == Called(frame[p], "createOutbound")
       IN  /\ outbound' = outbound \cup {f.results[f.j]}
           /\ IF f.j < Len(f.results)
              THEN Goto(p, "createOutbound", [f EXCEPT !.j = f.j + 1])
              ELSE Goto(p, "updateRecentMessageState",
                        [f EXCEPT !.j = 0, !.results = <<>>,
                                  !.responseMessages = f.results])
    /\ UNCHANGED <<lastProcessedCasts, memories, inboundCreates>>
    /\ CycleFrame /\ UNCHANGED histVars

\* createMemory of a result throws (lines 386-389): the callback returns [].
PersistFail(p) ==
    /\ At(p, "createOutbound")
    /\ Goto(p, "updateRecentMessageState",
            [frame[p] EXCEPT !.j = 0, !.results = <<>>,
                             !.dispatch = "persistFailed"])
    /\ UNCHANGED lastProcessedCasts
    /\ CycleFrame /\ UNCHANGED <<storeVars, histVars>>

\* updateRecentMessageState resolves (line 394).
UpdateState(p) ==
    /\ At(p, "updateRecentMessageState")
    /\ Goto(p, "processActions", Called(frame[p], "updateRecentMessageState"))
    /\ UNCHANGED lastProcessedCasts
    /\ CycleFrame /\ UNCHANGED <<storeVars, histVars>>

\* processActions resolves (lines 396-402) and handleCast returns.
ProcessActions(p) ==
    /\ At(p, "processActions")
    /\ Finish(p, Called(frame[p], "processActions"), "done")
    /\ UNCHANGED lastProcessedCasts
    /\ CycleFrame /\ UNCHANGED <<storeVars, histVars>>

\* The loop of line 178 takes the next candidate.
Advance(p) ==
    /\ At(p, "next")
    /\ LET f == [EmptyFrame EXCEPT !.mentions = frame[p].mentions,
                                   !.castsByUser = frame[p].castsByUser,
                                   !.castsCandidates = frame[p].castsCandidates,
                                   !.i = frame[p].i + 1]
       IN  Goto(p, LoopPc(f), f)
    /\ UNCHANGED lastProcessedCasts
    /\ CycleFrame /\ UNCHANGED <<storeVars, histVars>>

\* The awaits no inner try covers.
CycleAwaits ==
    {"getMentions", "getAgentProfile", "getMemoryById", "ensureConnection",
     "buildConversationThread", "getTimeline", "composeState", "getCastMemory",
     "createMemory", "generateShouldRespond", "generateMessageResponse",
     "updateRecentMessageState", "processActions"}

\* One of them throws: handleInteractions rejects (caught at line 40).
Throw(p) ==
    /\ p \in procs
    /\ pc[p] \in CycleAwaits
    /\ Goto(p, "settle", Rejected)
    /\ UNCHANGED lastProcessedCasts
    /\ CycleFrame /\ UNCHANGED <<storeVars, histVars>>

\* ------------------------------------------------- the specifications
\* The steps of the tracked-author aggregation.
Aggregate(p) ==
    \/ LookupUser(p) \/ FetchCasts(p) \/ GetCastProfile(p)
    \/ ThrowInUserLoop(p) \/ SelectCasts(p)

\* The steps of a started manager that need no caller.
Run(p) ==
    \/ TimerFire(p) \/ Settle(p) \/ GetMentions(p) \/ GetAgentProfile(p)
    \/ Gate(p) \/ EnsureConnection(p) \/ BuildThread(p) \/ GetTimeline(p)
    \/ ComposeState(p) \/ CheckCastMemory(p) \/ CreateInbound(p)
    \/ ShouldRespond(p) \/ Generate(p) \/ SendCastOk(p) \/ SendCastFail(p)
    \/ PersistOutbound(p) \/ PersistFail(p) \/ UpdateState(p)
    \/ ProcessActions(p) \/ Advance(p) \/ Throw(p)

Next ==
    \/ \E p \in Procs : Start(p) \/ Run(p) \/ Aggregate(p) \/ Stop(p) \/ Restart(p)
    \/ Tick

\* One manager in one process at a time, with stop() and restarts.
Spec == Init /\ [][Next]_vars

Next2 == \E p \in Procs : Start(p) \/ Run(p)

\* Two processes on one store.
Spec2 == Init2 /\ [][Next2]_vars

\* Every timer fires and every awaited call returns or throws in the end.
FairSpec == Init /\ [][Next]_vars /\ WF_vars(Run(1) \/ Aggregate(1))

\* ------------------------------------------------------- the claims
\* The manager is at candidate castsCandidates[i].
InCandidate(p) ==
    /\ p \in procs
    /\ pc[p] \in {"getMemoryById", "ensureConnection", "buildConversationThread",
                  "getTimeline", "composeState", "getCastMemory", "createMemory",
                  "generateShouldRespond", "generateMessageResponse", "sendCast",
                  "createOutbound", "updateRecentMessageState", "processActions",
                  "next"}

\* The candidate got past the gate of lines 189-194.
PastGate(p) ==
    /\ InCandidate(p)
    /\ pc[p] # "getMemoryById"
    /\ ~(pc[p] = "next" /\ frame[p].result = "gateSkip")

Recorded(h) == castUuid(AgentId, h) \in memories

\* The cast is one handleCast records and answers: not the agent's, with text.
Answerable(h) ==
    Casts[h].authorFid # config.FARCASTER_FID /\ Casts[h].textLength > 0

\* C1: over any sequence of cycles of one manager, restarts included,
\* sendCast succeeds at most once per cast hash; a candidate whose record
\* exists never gets past the gate (a candidate past the gate has no
\* record, or its record was created in this very pass), and a cast is
\* dispatched only in the pass that created its record.
C1_DispatchAtMostOnce ==
    /\ \A h \in Hashes : sent[h] <= 1
    /\ \A p \in Procs :
         (PastGate(p) /\ Recorded(Cur(p))) => "createMemory" \in frame[p].calls

\* A restarted process (lastProcessedCasts empty again) skips at the gate
\* the cast an earlier process answered.
C1_Witness ==
    /\ pc[1] = "next" /\ frame[1].result = "gateSkip"
    /\ sent[Cur(1)] = 1
    /\ Cur(1) \notin lastProcessedCasts[1]

\* C2: after sendCast failed for a cast (nothing sent, nothing marked), a
\* later cycle that meets the cast again attempts generation for it: the
\* candidate then ends with generateMessageResponse called.
C2_RetryAfterDispatchFailure ==
    \A p \in Procs :
        ( /\ InCandidate(p) /\ pc[p] = "next"
          /\ Cur(p) \in sendFailed[p] /\ sent[Cur(p)] = 0
          /\ frame[p].dispatch = "none" )
        => "generateMessageResponse" \in frame[p].calls

\* C3: with two processes on one store, for every cast hash the inbound
\* record is created at most once and at most one reply is dispatched.
C3_SharedStoreAtMostOnce ==
    \A h \in Hashes : inboundCreates[h] <= 1 /\ sent[h] <= 1

\* C4: once stop() was called, no cycle is scheduled and none begins.
C4_NoCycleAfterStop ==
    [][\A p \in Procs :
         (stopCalled[p] /\ stopCalled'[p]) =>
             (timers'[p] <= timers[p] /\ inFlight'[p] <= inFlight[p])]_vars

\* C5: while stop() is not called, every cycle that settles, returned or
\* thrown, arms exactly one timer for the next cycle, and when every timer
\* fires and every awaited call returns or throws, a manager that stays
\* started and unstopped begins cycles for ever.
C5_EveryCycleReschedules ==
    /\ [][\A p \in Procs :
            (pc[p] = "settle" /\ pc'[p] = "idle" /\ ~stopCalled[p]) =>
                (timers[p] = 0 /\ timers'[p] = 1 /\ timeout'[p] = "pending")]_vars
    /\ (<>[](started[1] /\ ~stopCalled[1])) =>
           ([]<>(inFlight[1] = 1) /\ []<>(timers[1] = 1))

\* A cycle that threw has settled and the next one is scheduled.
C5_Witness ==
    /\ pc[1] = "idle" /\ frame[1].threw /\ ~stopCalled[1]
    /\ timers[1] = 1 /\ inFlight[1] = 0

\* C6: the cycles of one manager are sequential: at most one cycle is in
\* flight, a timer is pending only while none is, and within a cycle at most
\* one handleCast runs, none while the loop is at the gate of a candidate.
C6_SequentialCycles ==
    \A p \in Procs :
        /\ inFlight[p] + timers[p] <= 1
        /\ (pc[p] \notin {"init", "idle"}) <=> (inFlight[p] = 1)
        /\ frame[p].handleCasts \in {0, 1}
        /\ pc[p] \in {"getMemoryById", "ensureConnection",
                      "buildConversationThread", "next", "settle", "idle"}
              => frame[p].handleCasts = 0

\* The second candidate of a cycle is at the gate, the first one handled.
C6_Witness ==
    /\ pc[1] = "getMemoryById" /\ frame[1].i = 2
    /\ Recorded(frame[1].castsCandidates[1])
    /\ inFlight[1] = 1 /\ timers[1] = 0

\* C7: a sendCast that fails leaves no partial state: at the candidate whose
\* dispatch failed the hash is not in lastProcessedCasts and the store holds
\* no outbound record for it.
C7_FailedDispatchLeavesNothing ==
    \A p \in Procs :
        (InCandidate(p) /\ frame[p].dispatch = "failed") =>
            /\ Cur(p) \notin lastProcessedCasts[p]
            /\ \A m \in outbound : m.hash # Cur(p)
            /\ frame[p].responseMessages = <<>>
            /\ sent[Cur(p)] = 0

\* handleCast has returned for a candidate whose sendCast threw.
C7_Witness ==
    /\ pc[1] = "next" /\ frame[1].dispatch = "failed"
    /\ frame[1].result = "done"

\* C8: an answerable cast met in successive cycles gets exactly one inbound
\* record: createMemory returns for it at most once; it has returned once
\* when handleCast ends for the cast and still once when a later cycle
\* skips the cast at the gate.
C8_OneInboundRecord ==
    /\ \A h \in Hashes :
         /\ inboundCreates[h] <= 1
         /\ Recorded(h) <=> inboundCreates[h] = 1
    /\ \A p \in Procs :
         (InCandidate(p) /\ pc[p] = "next" /\ Answerable(Cur(p))) =>
             inboundCreates[Cur(p)] = 1

\* A later cycle skips at the gate the cast recorded once.
C8_Witness ==
    /\ pc[1] = "next" /\ frame[1].result = "gateSkip"
    /\ Answerable(Cur(1))
    /\ inboundCreates[Cur(1)] = 1
    /\ Cur(1) \in sendFailed[1]

\* C9: with FARCASTER_DRY_RUN, sendCast is never called, nothing is marked
\* processed and no outbound record is written, while every candidate that
\* handleCast handles to its end had generateMessageResponse called.
C9_DryRunContainment ==
    config.FARCASTER_DRY_RUN =>
        /\ \A h \in Hashes : sent[h] = 0
        /\ outbound = {}
        /\ \A p \in Procs :
             /\ lastProcessedCasts[p] = {}
             /\ sendFailed[p] = {}
             /\ pc[p] \notin {"sendCast", "createOutbound",
                              "updateRecentMessageState", "processActions"}
             /\ "sendCast" \notin frame[p].calls
             /\ (InCandidate(p) /\ pc[p] = "next"
                 /\ frame[p].result \notin {"gateSkip", "self", "empty"})
                  => "generateMessageResponse" \in frame[p].calls

\* A dry run ends a candidate after generation.
C9_Witness ==
    /\ config.FARCASTER_DRY_RUN
    /\ pc[1] = "next" /\ frame[1].result = "dryRun"
    /\ "generateMessageResponse" \in frame[1].calls

\* C10: a candidate written by the agent reaches neither the classifier nor
\* generation nor dispatch, and no memory record is created for it.
C10_SelfSkip ==
    /\ \A p \in Procs :
         (InCandidate(p) /\ config.FARCASTER_FID # 0
          /\ Casts[Cur(p)].authorFid = config.FARCASTER_FID) =>
             /\ pc[p] \in {"getMemoryById", "ensureConnection",
                           "buildConversationThread", "next"}
             /\ frame[p].calls \subseteq
                  {"getMemoryById", "ensureConnection", "buildConversationThread"}
    /\ \A h \in Hashes :
         (config.FARCASTER_FID # 0 /\ Casts[h].authorFid = config.FARCASTER_FID) =>
             /\ ~Recorded(h) /\ inboundCreates[h] = 0
             /\ sent[h] = 0
             /\ \A m \in outbound : m.hash # h

\* handleCast has returned at line 242 for the agent's own cast.
C10_Witness ==
    /\ pc[1] = "next" /\ frame[1].result = "self"
    /\ Casts[Cur(1)].authorFid = config.FARCASTER_FID

\* C11: a candidate with an empty text is given up by handleCast before the
\* timeline, the classifier, generation and the inbound record: no memory
\* record is created for it, nothing is dispatched and its hash never
\* enters lastProcessedCasts.
C11_EmptyTextSkip ==
    /\ \A p \in Procs :
         (InCandidate(p) /\ Casts[Cur(p)].textLength = 0) =>
             /\ pc[p] \in {"getMemoryById", "ensureConnection",
                           "buildConversationThread", "next"}
             /\ frame[p].calls \subseteq
                  {"getMemoryById", "ensureConnection", "buildConversationThread"}
             /\ frame[p].dispatch = "none"
    /\ \A h \in Hashes :
         Casts[h].textLength = 0 =>
             /\ ~Recorded(h) /\ inboundCreates[h] = 0
             /\ sent[h] = 0
             /\ \A m \in outbound : m.hash # h
             /\ \A p \in Procs : h \notin lastProcessedCasts[p]

\* handleCast has returned at line 247 for a cast without text that is not
\* the agent's.
C11_Witness ==
    /\ pc[1] = "next" /\ frame[1].result = "empty"
    /\ Casts[Cur(1)].textLength = 0
    /\ Casts[Cur(1)].authorFid # config.FARCASTER_FID

\* The aggregation of a cycle is over: castsCandidates is final.
Aggregated(p) == p \in procs /\ pc[p] = "getAgentProfile"

Range(s) == {s[x] : x \in DOMAIN s}

\* The part of the candidates after the mentions.
SelectedCasts(f) ==
    SubSeq(f.castsCandidates, Len(f.mentions) + 1, Len(f.castsCandidates))

\* The places of the selection held by casts of the author of turn r.
PicksOf(f, r) ==
    IF r.username \in DOMAIN Users
    THEN {x \in DOMAIN SelectedCasts(f) :
             Casts[SelectedCasts(f)[x]].authorFid = Users[r.username]}
    ELSE {}

\* The candidates are the mentions as fetched, then at most one cast per
\* tracked author; of the authors whose turns are `chosen` exactly one cast,
\* of those the filter let through, and none of the others.
OneEach(p, chosen) ==
    LET f == frame[p]
        sel == SelectedCasts(f)
    IN  /\ Len(f.castsCandidates) >= Len(f.mentions)
        /\ SubSeq(f.castsCandidates, 1, Len(f.mentions)) = f.mentions
        /\ Len(sel) <= Len(TARGET_USERS)
        /\ Len(f.authors) = Len(TARGET_USERS)
        /\ \A a \in DOMAIN f.authors :
             LET r == f.authors[a]
             IN  IF a \in chosen
                 THEN \E x \in DOMAIN sel :
                         sel[x] \in Range(r.validCasts) /\ PicksOf(f, r) = {x}
                 ELSE PicksOf(f, r) = {}

\* C12 as stated: the candidates are the mentions in the order returned,
\* then the selections; every tracked author with a cast that survived the
\* filter has exactly one cast selected, of those that survived, an author
\* without one has none, and there are no more selections than authors.
C12_OneSelectionPerSurvivingAuthor ==
    \A p \in Procs :
        Aggregated(p) =>
            OneEach(p, {a \in DOMAIN frame[p].authors :
                           frame[p].authors[a].validCasts # <<>>})

\* C12 amended: the same, with exactly one cast selected of every tracked
\* author whose turn ended with castsByUser set, that is, whose casts
\* survived the filter and whose profile fetches all returned; an author
\* whose lookup, cast fetch or profile fetch failed has none.
C12_OneSelectionPerCompletedAuthor ==
    \A p \in Procs :
        Aggregated(p) =>
            OneEach(p, {a \in DOMAIN frame[p].authors :
                           frame[p].authors[a].outcome = "ok"})

\* A mention, then the one selection of an author whose turn completed,
\* the author before having failed at the profile fetch with a
\* surviving cast and nothing selected.
C12_Witness ==
    /\ Aggregated(1)
    /\ Len(frame[1].mentions) = 1
    /\ Len(SelectedCasts(frame[1])) = 1
    /\ \E a, b \in DOMAIN frame[1].authors :
         /\ frame[1].authors[a].outcome = "failed"
         /\ frame[1].authors[a].validCasts # <<>>
         /\ frame[1].authors[b].outcome = "ok"
         /\ SelectedCasts(frame[1])[1] \in Range(frame[1].authors[b].validCasts)

\* C13: every cast of a tracked author among the candidates passed the
\* filter of its author's turn: when it was filtered it was younger than 24
\* hours, strictly, its hash was not in lastProcessedCasts and its text was
\* longer than 10 characters.  A cast 24 hours old or older at the first
\* poll, or of 10 characters or fewer, is never among the selections.
C13_FilterBounds ==
    \A p \in Procs :
        \A x \in DOMAIN SelectedCasts(frame[p]) :
            LET h == SelectedCasts(frame[p])[x]
            IN  /\ Casts[h].textLength > 10
                /\ T0 - Casts[h].timestamp < 24 * 60 * 60 * 1000
                /\ Aggregated(p) =>
                     /\ h \notin lastProcessedCasts[p]
                     /\ \E a \in DOMAIN frame[p].authors :
                          LET r == frame[p].authors[a]
                          IN  /\ r.outcome = "ok"
                              /\ h \in Range(r.validCasts)
                              /\ r.at - Casts[h].timestamp < 24 * 60 * 60 * 1000

\* The cast selected was 23 hours 59 minutes old when it was filtered.
C13_Witness ==
    /\ Aggregated(1)
    /\ \E a \in DOMAIN frame[1].authors :
         LET r == frame[1].authors[a]
         IN  /\ r.outcome = "ok"
             /\ SelectedCasts(frame[1]) = <<r.validCasts[1]>>
             /\ r.at - Casts[r.validCasts[1]].timestamp = 24 * 60 * 60 * 1000 - 60 * 1000
             /\ Casts[r.validCasts[1]].textLength > 10

\* castsByUser as the turns of the authors that completed make it, the
\* other authors left out.
WithoutFailed(authors) ==
    LET Completed(r) == r.outcome = "ok"
        kept == SelectSeq(authors, Completed)
    IN  [x \in 1..Len(kept) |-> <<kept[x].username, kept[x].validCasts>>]

IsPrefix(s, t) == Len(s) <= Len(t) /\ SubSeq(t, 1, Len(s)) = s

\* C14: a tracked author whose lookup or cast fetch fails (an exception, or
\* no such user) is given up alone: the step leaves the cycle in the
\* aggregation with the mentions and the casts of the earlier authors as
\* they were, and when the aggregation ends castsByUser holds what the other
\* authors' turns produced, as if the failing author were not configured,
\* and the mentions are all among the candidates.
C14_AuthorFailureIsolated ==
    /\ [](\A p \in Procs :
            (p \in procs /\ pc[p] \in {"select", "getAgentProfile"}) =>
                /\ frame[p].castsByUser = WithoutFailed(frame[p].authors)
                /\ IsPrefix(frame[p].mentions, frame[p].castsCandidates)
                /\ ~frame[p].threw)
    /\ [][\A p \in Procs :
            (pc[p] \in UserAwaits /\ started'[p]) =>
                /\ pc'[p] \in UserAwaits \cup {"select"}
                /\ frame'[p].mentions = frame[p].mentions
                /\ frame'[p].castsCandidates = frame[p].castsCandidates
                /\ IsPrefix(frame[p].castsByUser, frame'[p].castsByUser)
                /\ IsPrefix(frame[p].authors, frame'[p].authors)]_vars

\* One author was not found, the next one's lookup or fetch threw, and the
\* cycle has its mention and the selection of the third author.
C14_Witness ==
    /\ Aggregated(1)
    /\ Len(frame[1].authors) = 3
    /\ frame[1].authors[1].outcome = "unknown"
    /\ frame[1].authors[2].outcome = "failed"
    /\ frame[1].authors[2].validCasts = <<>>
    /\ frame[1].authors[3].outcome = "ok"
    /\ frame[1].castsCandidates = frame[1].mentions \o <<"b1">>
    /\ Len(frame[1].mentions) = 1

\* C15: updateRecentMessageState and processActions are called for a
\* candidate only after its sendCast succeeded and every result was stored;
\* an outbound record is stored only after sendCast succeeded; a candidate
\* whose sendCast failed ends without either call.
C15_PropagationOnlyAfterPersistence ==
    \A p \in Procs :
        InCandidate(p) =>
            /\ (pc[p] \in {"updateRecentMessageState", "processActions"}
                \/ "updateRecentMessageState" \in frame[p].calls
                \/ "processActions" \in frame[p].calls) =>
                  /\ frame[p].dispatch = "sent"
                  /\ frame[p].responseMessages # <<>>
                  /\ Range(frame[p].responseMessages) \subseteq outbound
            /\ (pc[p] = "createOutbound" \/ "createOutbound" \in frame[p].calls) =>
                  (sent[Cur(p)] >= 1 /\ "sendCast" \in frame[p].calls)

\* C16: every outbound record stored from the results of a sendCast carries
\* the action of the generated content, the records after the first too.
C16_EveryOutboundCarriesAction ==
    \A m \in outbound : m.action = "ACT"

\* C17: every outbound record of the store replies to an inbound record
\* that is in the store, and the inbound record of a candidate is in the
\* store from the classifier on: while generateShouldRespond,
\* generateMessageResponse, sendCast and the createMemory of the results
\* are awaited.
C17_InboundBeforeOutbound ==
    /\ \A m \in outbound :
         /\ m.inReplyTo = <<AgentId, m.hash>>
         /\ m.inReplyTo \in memories
    /\ \A p \in Procs :
         (p \in procs /\ pc[p] \in {"generateShouldRespond", "generateMessageResponse",
                                    "sendCast", "createOutbound"}) =>
             /\ <<AgentId, Cur(p)>> \in memories
             /\ \A x \in DOMAIN frame[p].results :
                  frame[p].results[x].inReplyTo \in memories

\* The outbound records of a reply in two casts are stored, the inbound
\* record written by this pass before.
C17_Witness ==
    /\ pc[1] = "updateRecentMessageState" /\ frame[1].dispatch = "sent"
    /\ "createMemory" \in frame[1].calls
    /\ Cardinality({m \in outbound : m.inReplyTo = <<AgentId, Cur(1)>>}) = 2

\* C18: a candidate whose record the gate finds is skipped entirely: the
\* lookup is the only call made for it (no ensureConnection, thread, timeline,
\* classifier, generation, memory write or dispatch), the step of the gate
\* and the step to the next candidate leave lastProcessedCasts and the store
\* as they are, and the loop goes on with the next candidate.
C18_GateSkipTouchesNothing ==
    /\ [](\A p \in Procs :
            (p \in procs /\ pc[p] = "next" /\ frame[p].result = "gateSkip") =>
                /\ frame[p].calls = {"getMemoryById"}
                /\ <<AgentId, Cur(p)>> \in memories
                /\ frame[p].handleCasts = 0
                /\ frame[p].dispatch = "none" /\ frame[p].results = <<>>)
    /\ [][\A p \in Procs :
            /\ (pc[p] = "getMemoryById" /\ <<AgentId, Cur(p)>> \in memories
                /\ started'[p] /\ pc'[p] # pc[p]) =>
                  /\ \/ pc'[p] = "next" /\ frame'[p].result = "gateSkip"
                     \/ pc'[p] = "settle" /\ frame'[p].threw
                  /\ UNCHANGED <<lastProcessedCasts, memories, inboundCreates,
                                 outbound, sent>>
            /\ (pc[p] = "next" /\ frame[p].result = "gateSkip"
                /\ started'[p] /\ pc'[p] # pc[p]) =>
                  /\ frame'[p].i = frame[p].i + 1
                  /\ frame'[p].castsCandidates = frame[p].castsCandidates
                  /\ pc'[p] = IF frame[p].i < Len(frame[p].castsCandidates)
                              THEN "getMemoryById" ELSE "settle"
                  /\ ~frame'[p].threw
                  /\ UNCHANGED <<lastProcessedCasts, memories, inboundCreates,
                                 outbound, sent>>]_vars

\* A candidate recorded by an earlier cycle whose dispatch failed is skipped
\* at the gate, with another candidate after it.
C18_Witness ==
    /\ pc[1] = "next" /\ frame[1].result = "gateSkip"
    /\ frame[1].i < Len(frame[1].castsCandidates)
    /\ inboundCreates[Cur(1)] = 1
    /\ Cur(1) \notin lastProcessedCasts[1]
    /\ sent[Cur(1)] = 0
    /\ outbound = {}

\* C19: the verdict of generateShouldRespond is advisory: whatever it is
\* (RESPOND, IGNORE or STOP), the step that receives it goes on to
\* generateMessageResponse and changes neither lastProcessedCasts nor the
\* store; a candidate that got a verdict and ended had generation invoked;
\* and whether the reply is dispatched is decided by the generated text and
\* FARCASTER_DRY_RUN alone, the same for every verdict.
C19_VerdictAdvisory ==
    /\ [](\A p \in Procs :
            (InCandidate(p) /\ frame[p].verdict # "none") =>
                /\ frame[p].verdict \in {"RESPOND", "IGNORE", "STOP"}
                /\ pc[p] = "generateMessageResponse"
                   \/ "generateMessageResponse" \in frame[p].calls
                /\ pc[p] = "next" =>
                     frame[p].result \in {"emptyReply", "dryRun", "done"}
                /\ frame[p].result = "dryRun" <=>
                     (pc[p] = "next" /\ config.FARCASTER_DRY_RUN
                      /\ frame[p].result # "emptyReply")
                /\ frame[p].result = "done" =>
                     "sendCast" \in frame[p].calls)
    /\ [][\A p \in Procs :
            /\ (pc[p] = "generateShouldRespond" /\ started'[p] /\ pc'[p] # pc[p]) =>
                  /\ \/ pc'[p] = "generateMessageResponse"
                     \/ pc'[p] = "settle" /\ frame'[p].threw
                  /\ UNCHANGED <<lastProcessedCasts, memories, inboundCreates,
                                 outbound, sent>>
            /\ (pc[p] = "generateMessageResponse" /\ started'[p] /\ pc'[p] # pc[p]) =>
                  /\ \/ pc'[p] = "sendCast" /\ ~config.FARCASTER_DRY_RUN
                     \/ pc'[p] = "next" /\ frame'[p].result = "emptyReply"
                     \/ pc'[p] = "next" /\ frame'[p].result = "dryRun"
                        /\ config.FARCASTER_DRY_RUN
                     \/ pc'[p] = "settle" /\ frame'[p].threw
                  /\ pc'[p] # "settle" => frame'[p].verdict = frame[p].verdict
                  /\ UNCHANGED <<lastProcessedCasts, memories, inboundCreates,
                                 outbound, sent>>]_vars

\* The classifier said IGNORE and the reply was generated, dispatched and
\* stored all the same.
C19_Witness ==
    /\ pc[1] = "next" /\ frame[1].result = "done"
    /\ frame[1].verdict = "IGNORE"
    /\ frame[1].dispatch = "sent"
    /\ Cur(1) \in lastProcessedCasts[1]
    /\ \E m \in outbound : m.hash = Cur(1)

\* C20: in every state of a process a hash is in lastProcessedCasts if and
\* only if sendCast returned for it in this lifetime of the process; the
\* inbound record of every such hash is in the store; and while the process
\* lives no step takes a hash out of the set.
C20_ProcessedIffDelivered ==
    /\ [](\A p \in Procs :
            /\ lastProcessedCasts[p] = delivered[p]
            /\ \A h \in lastProcessedCasts[p] :
                 <<AgentId, h>> \in memories /\ sent[h] >= 1)
    /\ [][\A p \in Procs :
            started'[p] => lastProcessedCasts[p] \subseteq lastProcessedCasts'[p]]_vars

\* One cast was answered in this lifetime of the process and is in the set;
\* another was answered in a lifetime before: it is recorded and not in it.
C20_Witness ==
    /\ Cardinality(lastProcessedCasts[1]) = 1
    /\ \E h \in Hashes :
         /\ sent[h] = 1 /\ h \notin lastProcessedCasts[1]
         /\ <<AgentId, h>> \in memories

====
